---- MODULE Spec2Model ----
(***************************************************************************)
(* Model of the WMP communication engine of homebridge-mhacwifi1-lan:      *)
(* class MHRCWMP1 (device object: state snapshots, polling loop, writes,   *)
(* waitForEvent) and class MHRCWMP1_connect (line transport) of            *)
(* src/src/accessories/MHRCWMP1.ts, lines 1-698.                           *)
(*                                                                         *)
(* One action is one callback of the Node.js event loop (a timer, a        *)
(* setImmediate, a socket 'data' event, a call of the public API) together *)
(* with the promise continuations (microtasks) that it makes runnable:     *)
(* Node drains the microtask queue before the next callback runs.          *)
(* Time is not measured: a pending timer may expire at any later step.     *)
(***************************************************************************)
EXTENDS Integers, Sequences, FiniteSets, TLC

(***************************************************************************)
(* Bounds of the model.                                                    *)
(***************************************************************************)
MaxCalls == 4       \* waitForEvent calls made in one behaviour
MaxStarts == 1      \* startSynchronization() calls in one behaviour
MaxBuf == 10        \* tokens the receive buffer may retain after a data event
DumpSize == 2       \* channel lines with which the device answers GET,1:*
MaxDevices == 3     \* MHRCWMP1 objects constructed in one behaviour
MaxSockets == 3     \* sockets made by connect() in one behaviour
MaxPings == 2       \* keepalive PINGs written in one behaviour

(***************************************************************************)
(* JavaScript values.  A number is kept with one decimal digit (w + t/10), *)
(* so that 21.5 and 215 are different values and *10, /10 are computed.    *)
(***************************************************************************)
Num(w, t) == [k |-> "num", w |-> w, t |-> t]
Undef == [k |-> "undefined", w |-> 0, t |-> 0]
NaN == [k |-> "NaN", w |-> 0, t |-> 0]

\* v * 10.0 of the toVal transforms; undefined * 10 is NaN in JavaScript.
Times10(v) == IF v.k = "num" THEN Num(v.w * 10 + v.t, 0) ELSE NaN

MaxNum(a, b) == IF a.w * 10 + a.t >= b.w * 10 + b.t THEN a ELSE b
MinNum(a, b) == IF a.w * 10 + a.t <= b.w * 10 + b.t THEN a ELSE b

\* Math.max on whole numbers (the sync period, in ms)
MaxMs(a, b) == IF a >= b THEN a ELSE b

\* An object without keys, and the read of a key that may be absent.
EmptyObj == [x \in {} |-> Undef]
Get(obj, key) == IF key \in DOMAIN obj THEN obj[key] ELSE Undef
Put(obj, key, val) ==
  [x \in DOMAIN obj \cup {key} |-> IF x = key THEN val ELSE obj[x]]

(***************************************************************************)
(* SensorConfigMap / _buildSensorMap: the toVal transform of an attribute  *)
(* name (sensorMap[attr].xform), applied as setState applies it.           *)
(***************************************************************************)
HasToVal(attr) == attr \in {"mode", "vaneud", "setptemp", "minSetpoint", "maxSetpoint"}

\* a string value (a label of a descriptor, as the device or the table
\* writes it)
Label(str) == [k |-> str, w |-> 0, t |-> 0]

\* v / 10.0 of the fromVal transforms, for the whole numbers of the raw scale
Div10(v) ==
  IF v.k = "num" /\ v.t = 0 THEN Num(v.w \div 10, v.w % 10) ELSE NaN

\* toVal: normalized value -> value written to the device
ToVal(attr, v) ==
  CASE attr \in {"setptemp", "minSetpoint", "maxSetpoint"} -> Times10(v)
    [] attr = "mode" ->
         CASE v = Num(0, 0) -> Label("auto")
           [] v = Num(1, 0) -> Label("heat")
           [] v = Num(2, 0) -> Label("dry")
           [] v = Num(3, 0) -> Label("fan")
           [] v = Num(4, 0) -> Label("cool")
           [] OTHER -> Label("auto")
    [] attr = "vaneud" ->
         CASE v = Num(0, 0) -> Label("auto")
           [] v = Num(10, 0) -> Label("swing")
           [] OTHER -> v
    [] OTHER -> v

HasFromVal(attr) ==
  attr \in {"mode", "vaneud", "setptemp", "ambtemp", "minSetpoint", "maxSetpoint",
            "outdoorTemperature"}

\* fromVal: value sent by the device -> normalized value
FromVal(attr, v) ==
  CASE attr = "setptemp" -> IF v = Num(32768, 0) THEN Num(28, 0) ELSE Div10(v)
    [] attr \in {"ambtemp", "minSetpoint", "maxSetpoint", "outdoorTemperature"} -> Div10(v)
    [] attr = "mode" ->
         CASE v = Label("auto") -> Num(0, 0)
           [] v = Label("heat") -> Num(1, 0)
           [] v = Label("dry") -> Num(2, 0)
           [] v = Label("fan") -> Num(3, 0)
           [] v = Label("cool") -> Num(4, 0)
           [] OTHER -> Num(0, 0)
    [] attr = "vaneud" ->
         CASE v = Label("auto") -> Num(0, 0)
           [] v = Label("swing") -> Num(10, 0)
           [] OTHER -> v
    [] OTHER -> v

\* sensorMap[uid].xform of _buildSensorMap
XformFrom(attr, v) == IF HasFromVal(attr) THEN FromVal(attr, v) ELSE v

\* a transform that hands the normalized value on as it is
XformToIdentity(attr, v) == v

XformTo(attr, v) == IF HasToVal(attr) THEN ToVal(attr, v) ELSE v

\* Object.keys order used by checkForChange for the attributes of the model.
KeyOrder == <<"minSetpoint", "maxSetpoint", "onoff", "setptemp">>

(***************************************************************************)
(* Inputs.                                                                 *)
(***************************************************************************)
\* configured (minSetpoint, maxSetpoint) pairs handed to the constructor
CfgPairs == { <<Num(16, 0), Num(25, 0)>> }

\* configured sync periods handed to the constructor, in ms
CfgPeriods == { 5000 }

\* set.<attribute>(value) calls of the presentation layer: the attribute
\* name handed to setState and the normalized value
SetInputs == { <<"setptemp", Num(21, 5)>>, <<"minSetpoint", Num(19, 0)>> }

\* lines sent by the device, as token sequences ("CR" "LF" end a line)
AckLine == <<"ACK", "CR", "LF">>
ChnLine == <<"CHN,1", ":", "ONOFF", ",", "ON", "CR", "LF">>
IdLine == <<"ID", ":", "WMP", ",", "MAC", ",", "IP", ",", "ASCII", ",",
            "v1", ",", "-51", ",", "NAME", ",", "N", "CR", "LF">>
PongLine == <<"PONG", "CR", "LF">>
ChnSetpLine == <<"CHN,1", ":", "SETPTEMP", ",", "215", "CR", "LF">>
ChnUnknownLine == <<"CHN,1", ":", "999", ",", "1", "CR", "LF">>

\* the lines of the receive slice
InfoLine == <<"INFO", ":", "RUNVERSION", ",", "1.0", "CR", "LF">>
\* an identify response whose MAC field is written with a colon (AA:BB)
IdColonLine == <<"ID", ":", "WMP", ",", "AA", ":", "BB", ",", "IP", ",", "ASCII", ",",
                 "v1", ",", "-51", ",", "NAME", ",", "N", "CR", "LF">>

RxLines == {AckLine, ChnLine, ChnSetpLine, ChnUnknownLine, IdLine, PongLine,
            InfoLine, IdColonLine}

VARIABLES
  alive,            \* the Node process runs (no uncaught exception ended it)
  uncaught,         \* an exception has escaped from an event handler
  minSetpoint,      \* MHRCWMP1.minSetpoint (configured, clamped)
  maxSetpoint,      \* MHRCWMP1.maxSetpoint
  state,            \* MHRCWMP1.state
  previousState,    \* MHRCWMP1.previousState
  isInitialSynced,  \* MHRCWMP1.isInitialSynced
  identity,         \* MHRCWMP1.identity
  starts,           \* startSynchronization() calls made
  stops,            \* stopSynchronization() has been called
  immediates,       \* pending setImmediate(syncState) callbacks
  syncTimeout,      \* MHRCWMP1.syncTimeout: "null", "armed" (the timer it
                    \* names is pending) or "stale" (it names a fired timer)
  orphanTimers,     \* pending syncState timers that syncTimeout does not name
  submitted,        \* the set.<attribute>() calls made, in order
  wire,             \* the commands written to the socket, in order
  calls,            \* the waitForEvent calls made, in order
  buffer,           \* MHRCWMP1_connect.buffer
  changedLog,       \* EVENT_CHANGED notifications emitted
  updatedPending,   \* pending setTimeout(emit EVENT_UPDATED, 0) callbacks
  updatedCount,     \* EVENT_UPDATED notifications emitted
  infoResult,       \* what the last getInfo() call resolved with
  instance,         \* MHRCWMP1_connect.instance: the host it was made for
  devices,          \* the hosts of the MHRCWMP1 objects constructed, in order
  sockets,          \* the sockets made by connect(), in order, each with its
                    \* status; this.socket is the last one
  reconnectTimers,  \* pending setTimeout(connect, 5000) callbacks
  timerId,          \* MHRCWMP1_connect.timerId: "undefined", "active" (the
                    \* interval it names runs) or "cleared"
  keepalives,       \* running setInterval(send PING) timers
  unknownLogged,    \* "Received unknown message" has been logged
  codec,            \* a value on its way through a descriptor's transforms
  syncPeriod,       \* MHRCWMP1.syncPeriod (configured, clamped), in ms
  received,         \* history: the bytes each socket has handed to
                    \* onSocketData, by the socket's number
  dispatched        \* history: the 'line' events emitted by onSocketData, in
                    \* order, each with the socket whose data event emitted it

vars == <<alive, uncaught, minSetpoint, maxSetpoint, state, previousState,
          isInitialSynced, identity, starts, stops, immediates, syncTimeout,
          orphanTimers, submitted, wire, calls, buffer, changedLog,
          updatedPending, updatedCount, infoResult, instance, devices,
          sockets, reconnectTimers, timerId, keepalives, unknownLogged, codec,
          syncPeriod, received, dispatched>>


(***************************************************************************)
(* Token sequences: String.indexOf and String.split on lines.              *)
(***************************************************************************)
\* the first position of tok in s, 0 when there is none (indexOf's -1)
RECURSIVE IndexFrom(_, _, _)
IndexFrom(s, tok, i) ==
  IF i > Len(s) THEN 0
  ELSE IF s[i] = tok THEN i
  ELSE IndexFrom(s, tok, i + 1)

IndexOf(s, tok) == IndexFrom(s, tok, 1)

\* s.split(sep): the pieces of s between the separators
RECURSIVE Split(_, _)
Split(s, sep) ==
  LET n == IndexOf(s, sep)
  IN IF n = 0 THEN <<s>>
     ELSE <<SubSeq(s, 1, n - 1)>> \o Split(SubSeq(s, n + 1, Len(s)), sep)

\* s.split(sep, limit): the first `limit` pieces
SplitLimit(s, sep, limit) ==
  LET all == Split(s, sep)
  IN IF Len(all) > limit THEN SubSeq(all, 1, limit) ELSE all

\* the value of a destructured array element that may be missing
Undefined == <<"#undefined">>
Elem(arr, i) == IF i <= Len(arr) THEN arr[i] ELSE Undefined

(***************************************************************************)
(* The mutable fields of the two objects, gathered in one record so that   *)
(* the methods can be written as functions from record to record.          *)
(***************************************************************************)
Cur ==
  [state |-> state, previousState |-> previousState,
   isInitialSynced |-> isInitialSynced, identity |-> identity,
   syncTimeout |-> syncTimeout, orphanTimers |-> orphanTimers,
   submitted |-> submitted, wire |-> wire, calls |-> calls,
   buffer |-> buffer, changedLog |-> changedLog,
   updatedPending |-> updatedPending, infoResult |-> infoResult,
   instance |-> instance, devices |-> devices, sockets |-> sockets,
   reconnectTimers |-> reconnectTimers, timerId |-> timerId,
   keepalives |-> keepalives, unknownLogged |-> unknownLogged,
   thrown |-> FALSE, lines |-> <<>>]

Commit(e) ==
  /\ state' = e.state
  /\ previousState' = e.previousState
  /\ isInitialSynced' = e.isInitialSynced
  /\ identity' = e.identity
  /\ syncTimeout' = e.syncTimeout
  /\ orphanTimers' = e.orphanTimers
  /\ submitted' = e.submitted
  /\ wire' = e.wire
  /\ calls' = e.calls
  /\ buffer' = e.buffer
  /\ changedLog' = e.changedLog
  /\ updatedPending' = e.updatedPending
  /\ infoResult' = e.infoResult
  /\ instance' = e.instance
  /\ devices' = e.devices
  /\ sockets' = e.sockets
  /\ reconnectTimers' = e.reconnectTimers
  /\ timerId' = e.timerId
  /\ keepalives' = e.keepalives
  /\ unknownLogged' = e.unknownLogged

(***************************************************************************)
(* waitForEvent (398-417).  A call is a record: the emitter and event it   *)
(* listens to, whether its timer is pending, whether its `success` and     *)
(* `fail` listeners are registered, and the outcome of its promise.        *)
(* kind and by say who made the call: "write" (setState, for the by-th     *)
(* set call), "sync" (refreshState called by syncState), "refresh"         *)
(* (refreshState called from outside), "info" (getInfo), "ext" (a direct   *)
(* call of the public method).  ret is the result of the async function    *)
(* that awaits the call.  chn counts the channel updates handed to onCHN   *)
(* since the call was made (up to DumpSize).                               *)
(***************************************************************************)
NewCall(em, ev, kind, by) ==
  [emitter |-> em, event |-> ev, kind |-> kind, by |-> by,
   timer |-> TRUE, success |-> TRUE, fail |-> TRUE,
   outcome |-> "pending", ret |-> "none", chn |-> 0]

WaitForEvent(e, em, ev, kind, by) ==
  [e EXCEPT !.calls = Append(@, NewCall(em, ev, kind, by))]

\* a promise whose later resolve/reject replaced the outcome
SettleOverwrite(outcome, new) == new

\* resolve/reject of a promise that may be settled already: the first wins
Settle(outcome, new) == IF outcome = "pending" THEN new ELSE outcome

\* the `success` listener (404-408); `once` has removed it before it runs
Success(c) ==
  [c EXCEPT !.success = FALSE, !.fail = FALSE, !.timer = FALSE,
            !.outcome = Settle(@, "resolved")]

\* the `fail` listener (409-413)
Fail(c) ==
  [c EXCEPT !.fail = FALSE, !.success = FALSE, !.timer = FALSE,
            !.outcome = Settle(@, "error")]

\* the timer callback (400-402): rejects, and removes no listener
Timeout(c) ==
  [c EXCEPT !.timer = FALSE, !.outcome = Settle(@, "timeout")]

\* emitter.emit(ev): every listener registered for ev on em runs
Emit(e, em, ev) ==
  [e EXCEPT !.calls =
     [i \in DOMAIN @ |->
        IF @[i].emitter = em /\ @[i].event = ev /\ @[i].success
        THEN Success(@[i]) ELSE @[i]]]

\* emitter.emit("error", err)
EmitErr(e, em) ==
  [e EXCEPT !.calls =
     [i \in DOMAIN @ |->
        IF @[i].emitter = em /\ @[i].fail THEN Fail(@[i]) ELSE @[i]]]

(***************************************************************************)
(* Commands and MHRCWMP1_connect.send (461-464).                           *)
(***************************************************************************)
None == [k |-> "none", w |-> 0, t |-> 0]

\* a command line; by is the number of the set call that built it (0: none)
Cmd(op, attr, a, b, by) == [op |-> op, attr |-> attr, a |-> a, b |-> b, by |-> by]

\* a send that puts the command before those written earlier
SendFirst(e, cmd) == [e EXCEPT !.wire = <<cmd>> \o @]

Send(e, cmd) == [e EXCEPT !.wire = Append(@, cmd)]

(***************************************************************************)
(* setState (273-298) and the set.<attribute> wrappers (91-120).           *)
(***************************************************************************)
SetState(e, attr, value, by) ==
  LET xvalue == XformTo(attr, value)
      command ==
        IF attr = "maxSetpoint"
        THEN Cmd("LIMITS", "SETPTEMP",
                 XformTo("minSetpoint", Get(e.state, "minSetpoint")), xvalue, by)
        ELSE IF attr = "minSetpoint"
        THEN Cmd("LIMITS", "SETPTEMP",
                 xvalue, XformTo("maxSetpoint", Get(e.state, "maxSetpoint")), by)
        ELSE Cmd("SET", attr, value, None, by)
  IN WaitForEvent(Send(e, command), "coms", "ACK", "write", by)

\* the commented-out line 296: the written value put into the state
SetStateOptimistic(st, attr, value) == Put(st, attr, value)

\* what setState does to the state after its await (296-297: nothing)
SetStateDone(st, attr, value) == st

SetCall(e, attr, value) ==
  LET e1 == [e EXCEPT !.submitted = Append(@, <<attr, value>>)]
  IN SetState(e1, attr, value, Len(e1.submitted))

(***************************************************************************)
(* checkForChange (252-265), resetState (219-223), refreshState (162-170), *)
(* syncState (175-214).                                                    *)
(***************************************************************************)
\* JavaScript != on the values of the model (NaN differs from itself)
Differs(a, b) == a.k = "NaN" \/ b.k = "NaN" \/ a # b

\* a change detection that does not record the new value as the previous
RECURSIVE CheckKeysForgets(_, _)
CheckKeysForgets(e, i) ==
  IF i > Len(KeyOrder) THEN e
  ELSE LET attr == KeyOrder[i]
       IN IF attr \in DOMAIN e.state
             /\ Differs(e.state[attr], Get(e.previousState, attr))
          THEN CheckKeysForgets(
                 [e EXCEPT !.changedLog =
                             Append(@, <<attr, Get(e.previousState, attr), e.state[attr]>>)],
                 i + 1)
          ELSE CheckKeysForgets(e, i + 1)

RECURSIVE CheckKeys(_, _)
CheckKeys(e, i) ==
  IF i > Len(KeyOrder) THEN e
  ELSE LET attr == KeyOrder[i]
       IN IF attr \in DOMAIN e.state
             /\ Differs(e.state[attr], Get(e.previousState, attr))
          THEN CheckKeys(
                 [e EXCEPT !.changedLog =
                             Append(@, <<attr, Get(e.previousState, attr), e.state[attr]>>),
                           !.previousState = Put(@, attr, e.state[attr])],
                 i + 1)
          ELSE CheckKeys(e, i + 1)

\* a change detection that schedules no generic update
CheckForChangeSilent(e) == CheckKeys(e, 1)

CheckForChange(e) ==
  LET e1 == CheckKeys(e, 1)
  IN IF Len(e1.changedLog) > Len(e.changedLog)
     THEN [e1 EXCEPT !.updatedPending = @ + 1]
     ELSE e1

ResetState(e) ==
  [e EXCEPT !.isInitialSynced = FALSE, !.previousState = EmptyObj, !.state = EmptyObj]

RefreshState(e, kind) ==
  WaitForEvent(Send(e, Cmd("GET", "*", None, None, 0)), "dev", "onCHNUpd", kind, 0)

\* how refreshState completes when its waitForEvent has settled: the catch
\* of 167-169 logs the failure and the function returns normally
RefreshReturn(outcome) ==
  IF outcome = "resolved" THEN "fulfilled" ELSE "fulfilled"

\* a first cycle that polls before it pushes the limits
SyncStatePollsFirst(e) ==
  IF ~e.isInitialSynced
  THEN LET s0 == [e EXCEPT
                    !.previousState = EmptyObj,
                    !.state = Put(Put(EmptyObj, "minSetpoint", minSetpoint),
                                  "maxSetpoint", maxSetpoint),
                    !.isInitialSynced = TRUE]
       IN SetCall(SetCall(RefreshState(s0, "sync"), "minSetpoint", minSetpoint),
                  "maxSetpoint", maxSetpoint)
  ELSE RefreshState(e, "sync")

\* a first cycle that clears the snapshots and does not seed the bounds
SyncStateUnseeded(e) ==
  IF ~e.isInitialSynced
  THEN LET s0 == [e EXCEPT !.previousState = EmptyObj, !.state = EmptyObj,
                           !.isInitialSynced = TRUE]
       IN RefreshState(SetCall(SetCall(s0, "minSetpoint", minSetpoint),
                               "maxSetpoint", maxSetpoint), "sync")
  ELSE RefreshState(e, "sync")

\* syncState up to its await of refreshState (176-200)
SyncState(e) ==
  LET e1 ==
        IF ~e.isInitialSynced
        THEN LET s0 == [e EXCEPT
                          !.previousState = EmptyObj,
                          !.state = Put(Put(EmptyObj, "minSetpoint", minSetpoint),
                                        "maxSetpoint", maxSetpoint),
                          !.isInitialSynced = TRUE]
             IN SetCall(SetCall(s0, "minSetpoint", minSetpoint),
                        "maxSetpoint", maxSetpoint)
        ELSE e
  IN RefreshState(e1, "sync")

\* this.syncTimeout = setTimeout(...) (213): a timer the field named before
\* and that is still pending keeps running, named by nothing
ArmSyncTimer(e) ==
  [e EXCEPT !.orphanTimers = @ + (IF e.syncTimeout = "armed" THEN 1 ELSE 0),
            !.syncTimeout = "armed"]

\* syncState after refreshState has completed with ret (201-213)
SyncAfterRefresh(e, ret) ==
  ArmSyncTimer(IF ret = "fulfilled" THEN CheckForChange(e) ELSE ResetState(e))

(***************************************************************************)
(* The continuations of the calls an event handler has settled, run in the *)
(* order of the calls (old: the calls before the handler ran).             *)
(***************************************************************************)
ContinueCall(e, i) ==
  LET c == e.calls[i]
  IN CASE c.kind = "write" ->
            [e EXCEPT !.state = SetStateDone(@, e.submitted[c.by][1], e.submitted[c.by][2])]
       [] c.kind = "refresh" ->
            [e EXCEPT !.calls[i].ret = RefreshReturn(c.outcome)]
       [] c.kind = "sync" ->
            SyncAfterRefresh([e EXCEPT !.calls[i].ret = RefreshReturn(c.outcome)],
                             RefreshReturn(c.outcome))
       [] c.kind = "info" ->
            [e EXCEPT !.calls[i].ret = "fulfilled",
                      !.infoResult = [returned |-> TRUE, value |-> e.identity]]
       [] OTHER -> e

RECURSIVE Continue(_, _, _)
Continue(e, old, i) ==
  IF i > Len(old) THEN e
  ELSE IF old[i].outcome = "pending" /\ e.calls[i].outcome # "pending"
       THEN Continue(ContinueCall(e, i), old, i + 1)
       ELSE Continue(e, old, i + 1)


(***************************************************************************)
(* Event handlers of the device object: onID (332-338), onINFO (340-342),  *)
(* onCHN (344-395).  thrown marks an exception leaving the handler.        *)
(***************************************************************************)
IdKeys == <<"model", "wlanSTAMAC", "ip", "protocol", "fwVersion", "rssi", "name">>

OnID(e, id) ==
  IF id = Undefined
  THEN [e EXCEPT !.thrown = TRUE]          \* undefined.split: TypeError
  ELSE LET f == Split(id, ",")
           obj == [x \in {IdKeys[i] : i \in 1..Len(IdKeys)} \cup {"sn"} |->
                     IF x = "sn" THEN Elem(f, 2)
                     ELSE Elem(f, CHOOSE i \in 1..Len(IdKeys) : IdKeys[i] = x)]
       IN Emit([e EXCEPT !.identity = obj], "dev", "onIDUpd")

\* this.info is never assigned: this.info[name] = value raises a TypeError
OnINFO(e, name, value) == [e EXCEPT !.thrown = TRUE]

\* the channel update is counted for the calls that wait for onCHNUpd
CountChn(e) ==
  [e EXCEPT !.calls =
     [i \in DOMAIN @ |->
        IF @[i].event = "onCHNUpd" /\ @[i].outcome = "pending" /\ @[i].chn < DumpSize
        THEN [@[i] EXCEPT !.chn = @ + 1] ELSE @[i]]]

\* the handler reaching its emit("onCHNUpd") (393) for every channel line
OnCHNEmits(e, name, value) == Emit(CountChn(e), "dev", "onCHNUpd")

\* `let chnData` (346) is undefined, so `chnData.uid = id` (348) raises a
\* TypeError for every name (347 raises it first for a name that sensorMap
\* does not hold): nothing after it runs, neither emit("onCHNUpd") (393)
\* nor parseState (394)
OnCHN(e, name, value) == [CountChn(e) EXCEPT !.thrown = TRUE]

(***************************************************************************)
(* MHRCWMP1_connect: onSocketLine (516-537) and onSocketData (502-514).    *)
(***************************************************************************)
OnSocketLine(e, line) ==
  LET parts == SplitLimit(line, ":", 2)
      code == parts[1]
      rest == Elem(parts, 2)
      nv == SplitLimit(rest, ",", 2)
  IN CASE code = <<"ID">> -> OnID(e, rest)
       [] code = <<"INFO">> ->
            IF rest = Undefined THEN [e EXCEPT !.thrown = TRUE]
            ELSE OnINFO(e, Elem(nv, 1), Elem(nv, 2))
       [] code = <<"ACK">> -> Emit(e, "coms", "ACK")
       [] code = <<"CHN,1">> ->
            IF rest = Undefined THEN [e EXCEPT !.thrown = TRUE]
            ELSE OnCHN(e, Elem(nv, 1), Elem(nv, 2))
       [] OTHER -> [e EXCEPT !.unknownLogged = TRUE]   \* "Received unknown message"

\* the while loop of onSocketData: an exception raised by a listener of
\* "line" leaves the loop before the line is cut off the buffer
RECURSIVE Drain(_)
Drain(e) ==
  LET n == IndexOf(e.buffer, "LF")
  IN IF n = 0 THEN e
     ELSE LET raw == SubSeq(e.buffer, 1, n - 1)
              line == IF Len(raw) > 0 /\ raw[Len(raw)] = "CR"
                      THEN SubSeq(raw, 1, Len(raw) - 1) ELSE raw
              d == OnSocketLine([e EXCEPT !.lines = Append(@, line)], line)
          IN IF d.thrown THEN d
             ELSE Drain([d EXCEPT !.buffer = SubSeq(e.buffer, n + 1, Len(e.buffer))])

OnSocketData(e, data) == Drain([e EXCEPT !.buffer = @ \o data])

(***************************************************************************)
(* MHRCWMP1_connect: getInstance (454-459), the constructor (446-452),     *)
(* connect (481-488) and the socket's event handlers (490-500, 539-549).   *)
(***************************************************************************)
Hosts == {"hostA", "hostB"}

\* connect: net.connect makes a new socket, and this.socket names it
Connect(e) == [e EXCEPT !.sockets = Append(@, "connecting")]

\* new MHRCWMP1_connect(log, host)
NewTransport(e, host) == Connect([e EXCEPT !.instance = host, !.buffer = <<>>])

\* a getInstance that makes a transport for every request
GetInstanceNew(e, host) == NewTransport(e, host)

GetInstance(e, host) ==
  IF e.instance = "none" THEN NewTransport(e, host) ELSE e

\* the constructor of MHRCWMP1 for a host (62-67)
NewDevice(e, host) == [GetInstance(e, host) EXCEPT !.devices = Append(@, host)]

\* onSocketConnect: sendID, and timerId = setInterval(send PING)
OnSocketConnect(e) ==
  [Send(e, Cmd("ID", "", None, None, 0)) EXCEPT
     !.keepalives = @ + 1, !.timerId = "active"]

\* an error handler that connects again
OnSocketErrorReconnects(e) == Connect(e)

\* an error handler that passes the error on to the listeners of the
\* transport
OnSocketErrorForwards(e) == EmitErr(e, "coms")

\* onSocketError: logs the error
OnSocketError(e) == e

\* a close handler that arms two reconnect timers
OnSocketCloseTwice(e) ==
  [e EXCEPT !.keepalives = IF e.timerId = "active" THEN @ - 1 ELSE @,
            !.timerId = IF @ = "active" THEN "cleared" ELSE @,
            !.reconnectTimers = @ + 2]

\* a close handler that arms no reconnect timer
OnSocketCloseGivesUp(e) ==
  [e EXCEPT !.keepalives = IF e.timerId = "active" THEN @ - 1 ELSE @,
            !.timerId = IF @ = "active" THEN "cleared" ELSE @]

\* a close handler that leaves the keepalive running
OnSocketCloseKeepsPing(e) == [e EXCEPT !.reconnectTimers = @ + 1]

\* onSocketClose: clearInterval(this.timerId), and setTimeout(connect, 5000)
OnSocketClose(e) ==
  [e EXCEPT !.keepalives = IF e.timerId = "active" THEN @ - 1 ELSE @,
            !.timerId = IF @ = "active" THEN "cleared" ELSE @,
            !.reconnectTimers = @ + 1]

(***************************************************************************)
(* getInfo (144-153).  identity is a plain object ({} at 35, the object    *)
(* built at 335): it has no length property, and undefined == 0 is false.  *)
(***************************************************************************)
IdentityLength(id) == Undef

LooseEqualsZero(v) == v.k = "num" /\ v.w = 0 /\ v.t = 0

GetInfoOp(e) ==
  IF LooseEqualsZero(IdentityLength(e.identity))
  THEN WaitForEvent(e, "dev", "onIDUpd", "info", 0)
  ELSE [e EXCEPT !.infoResult = [returned |-> TRUE, value |-> e.identity]]

(***************************************************************************)
(* The transport after the first device object was constructed for        *)
(* FirstHost: getInstance has made the instance, and its constructor has  *)
(* called connect (446-452, 481-488).                                      *)
(***************************************************************************)
FirstHost == "hostA"

InitTransport ==
  /\ instance = FirstHost
  /\ devices = <<FirstHost>>
  /\ sockets = <<"connecting">>
  /\ reconnectTimers = 0
  /\ timerId = "undefined"
  /\ keepalives = 0
  /\ unknownLogged = FALSE
  /\ received = [i \in 1..MaxSockets |-> <<>>]
  /\ dispatched = <<>>

\* no value is on its way through a transform
NoCodec == [reg |-> "none", dir |-> "none", in |-> Undef, mid |-> Undef,
            out |-> Undef, stage |-> "idle"]

(***************************************************************************)
(* Initial state: the objects after the constructors have run (39-68,      *)
(* 446-452), for a configured pair of setpoint bounds.                     *)
(***************************************************************************)
InitWith(pairs, periods) ==
  /\ \E cfg \in pairs :
       /\ minSetpoint = MaxNum(Num(18, 0), cfg[1])
       /\ maxSetpoint = MinNum(Num(30, 0), cfg[2])
  /\ \E period \in periods : syncPeriod = MaxMs(1000, period)
  /\ state = Put(Put(EmptyObj, "minSetpoint", minSetpoint), "maxSetpoint", maxSetpoint)
  /\ previousState = EmptyObj
  /\ isInitialSynced = FALSE
  /\ identity = [x \in {} |-> Undefined]
  /\ alive = TRUE
  /\ uncaught = FALSE
  /\ starts = 0
  /\ stops = FALSE
  /\ immediates = 0
  /\ syncTimeout = "null"
  /\ orphanTimers = 0
  /\ submitted = <<>>
  /\ wire = <<>>
  /\ calls = <<>>
  /\ buffer = <<>>
  /\ changedLog = <<>>
  /\ updatedPending = 0
  /\ updatedCount = 0
  /\ infoResult = [returned |-> FALSE, value |-> [x \in {} |-> Undefined]]
  /\ InitTransport
  /\ codec = NoCodec

Init == InitWith(CfgPairs, CfgPeriods)

(***************************************************************************)
(* Actions.                                                                *)
(***************************************************************************)
\* a step of the program that raises no exception
Step(e) ==
  /\ Commit(Continue(e, calls, 1))
  /\ UNCHANGED <<alive, uncaught, minSetpoint, maxSetpoint, codec, syncPeriod,
                 received, dispatched>>

\* startSynchronization (125-127)
StartSynchronization ==
  /\ alive
  /\ starts < MaxStarts
  /\ starts' = starts + 1
  /\ immediates' = immediates + 1
  /\ UNCHANGED <<alive, uncaught, minSetpoint, maxSetpoint, state, previousState,
                 isInitialSynced, identity, stops, syncTimeout, orphanTimers,
                 submitted, wire, calls, buffer, changedLog, updatedPending,
                 updatedCount, infoResult, instance, devices, sockets,
                 reconnectTimers, timerId, keepalives, unknownLogged, codec,
                 syncPeriod, received, dispatched>>

\* a stop that leaves the timer named by syncTimeout running
StopKeepsTimer(e) == e

\* the body of stopSynchronization (133-135): clearTimeout of the timer
\* that syncTimeout names, and syncTimeout = null
StopSynchronizationOp(e) == [e EXCEPT !.syncTimeout = "null"]

\* stopSynchronization (132-136)
StopSynchronization ==
  /\ alive
  /\ stops' = TRUE
  /\ Step(StopSynchronizationOp(Cur))
  /\ UNCHANGED <<starts, immediates, updatedCount>>

\* the calls syncState makes before it suspends
SyncCalls == IF isInitialSynced THEN 1 ELSE 3

\* the setImmediate callback of startSynchronization runs syncState
SyncImmediate ==
  /\ alive
  /\ immediates > 0
  /\ Len(calls) + SyncCalls <= MaxCalls
  /\ immediates' = immediates - 1
  /\ Step(SyncState(Cur))
  /\ UNCHANGED <<starts, stops, updatedCount>>

\* the pending timers armed at 213, and the expiry of one of them
PendingSyncTimers ==
  (IF syncTimeout = "armed" THEN {"named"} ELSE {})
    \cup (IF orphanTimers > 0 THEN {"orphan"} ELSE {})

FireSyncTimer(e, t) ==
  IF t = "named" THEN [e EXCEPT !.syncTimeout = "stale"]
  ELSE [e EXCEPT !.orphanTimers = @ - 1]

\* a timer armed at 213 expires and runs syncState
SyncTimer ==
  /\ alive
  /\ Len(calls) + SyncCalls <= MaxCalls
  /\ \E t \in PendingSyncTimers : Step(SyncState(FireSyncTimer(Cur, t)))
  /\ UNCHANGED <<starts, stops, immediates, updatedCount>>

\* set.<attribute>(value) called by the presentation layer
SetAttribute ==
  /\ alive
  /\ Len(calls) < MaxCalls
  /\ \E in \in SetInputs : Step(SetCall(Cur, in[1], in[2]))
  /\ UNCHANGED <<starts, stops, immediates, updatedCount>>

\* refreshState() called by the presentation layer
RefreshCall ==
  /\ alive
  /\ Len(calls) < MaxCalls
  /\ Step(RefreshState(Cur, "refresh"))
  /\ UNCHANGED <<starts, stops, immediates, updatedCount>>

\* getInfo() called by the presentation layer
GetInfo ==
  /\ alive
  /\ Len(calls) < MaxCalls
  /\ Step(GetInfoOp(Cur))
  /\ UNCHANGED <<starts, stops, immediates, updatedCount>>

\* waitForEvent(emitter, "event") called directly on an emitter of the caller
WaitCall ==
  /\ alive
  /\ Len(calls) < MaxCalls
  /\ Step(WaitForEvent(Cur, "ext", "event", "ext", 0))
  /\ UNCHANGED <<starts, stops, immediates, updatedCount>>

\* the caller's emitter emits the awaited event
ExtEvent ==
  /\ alive
  /\ \E i \in DOMAIN calls : calls[i].emitter = "ext" /\ calls[i].success
  /\ Step(Emit(Cur, "ext", "event"))
  /\ UNCHANGED <<starts, stops, immediates, updatedCount>>

\* the caller's emitter emits "error"
ExtError ==
  /\ alive
  /\ \E i \in DOMAIN calls : calls[i].emitter = "ext" /\ calls[i].fail
  /\ Step(EmitErr(Cur, "ext"))
  /\ UNCHANGED <<starts, stops, immediates, updatedCount>>

\* the timer of a waitForEvent call expires.  Every call uses the default
\* timeoutMS (398), and Node runs timers of one duration in the order in
\* which they were armed.
TimerExpires ==
  /\ alive
  /\ \E i \in DOMAIN calls :
       /\ calls[i].timer
       /\ \A j \in 1..(i - 1) : ~calls[j].timer
       /\ Step([Cur EXCEPT !.calls[i] = Timeout(@)])
  /\ UNCHANGED <<starts, stops, immediates, updatedCount>>

\* the deferred emit of EVENT_UPDATED (263)
EmitUpdated ==
  /\ alive
  /\ updatedPending > 0
  /\ updatedPending' = updatedPending - 1
  /\ updatedCount' = updatedCount + 1
  /\ UNCHANGED <<alive, uncaught, minSetpoint, maxSetpoint, state, previousState,
                 isInitialSynced, identity, starts, stops, immediates, syncTimeout,
                 orphanTimers, submitted, wire, calls, buffer, changedLog, infoResult,
                 instance, devices, sockets, reconnectTimers, timerId, keepalives,
                 unknownLogged, codec, syncPeriod, received, dispatched>>

\* a 'data' event of the socket.  An exception that leaves the handler is
\* uncaught: Node ends the process unless the host has installed an
\* uncaughtException handler that lets it run on.
SocketData(chunks) ==
  /\ alive
  /\ \E data \in chunks :
       LET e == OnSocketData(Cur, data)
       IN /\ Len(e.buffer) <= MaxBuf
          /\ Commit(Continue(e, calls, 1))
          /\ uncaught' = (uncaught \/ e.thrown)
          /\ IF e.thrown THEN alive' \in BOOLEAN ELSE alive' = alive
  /\ UNCHANGED <<minSetpoint, maxSetpoint, starts, stops, immediates, updatedCount,
                 codec, syncPeriod, received, dispatched>>

\* new MHRCWMP1(log, host, ...): a further device object is constructed
DeviceConstructed ==
  /\ alive
  /\ Len(devices) < MaxDevices
  /\ \E host \in Hosts : Step(NewDevice(Cur, host))
  /\ UNCHANGED <<starts, stops, immediates, updatedCount>>

\* the 'connect' event of a socket
SocketConnect ==
  /\ alive
  /\ \E i \in DOMAIN sockets :
       /\ sockets[i] = "connecting"
       /\ Step(OnSocketConnect([Cur EXCEPT !.sockets[i] = "connected"]))
  /\ UNCHANGED <<starts, stops, immediates, updatedCount>>

\* a socket fails: Node destroys it and emits 'error' and then 'close' in
\* one turn of the event loop
SocketError ==
  /\ alive
  /\ \E i \in DOMAIN sockets :
       /\ sockets[i] \in {"connecting", "connected"}
       /\ Step(OnSocketClose(OnSocketError([Cur EXCEPT !.sockets[i] = "closed"])))
  /\ UNCHANGED <<starts, stops, immediates, updatedCount>>

\* the 'close' event of a connected socket that the device has ended
SocketClose ==
  /\ alive
  /\ \E i \in DOMAIN sockets :
       /\ sockets[i] = "connected"
       /\ Step(OnSocketClose([Cur EXCEPT !.sockets[i] = "closed"]))
  /\ UNCHANGED <<starts, stops, immediates, updatedCount>>

\* a timer armed by onSocketClose expires and calls connect (546-548)
ReconnectTimer ==
  /\ alive
  /\ reconnectTimers > 0
  /\ Len(sockets) < MaxSockets
  /\ Step(Connect([Cur EXCEPT !.reconnectTimers = @ - 1]))
  /\ UNCHANGED <<starts, stops, immediates, updatedCount>>

\* a keepalive interval fires and sends PING (498)
KeepAlive ==
  /\ alive
  /\ keepalives > 0
  /\ Len(SelectSeq(wire, LAMBDA c : c.op = "PING")) < MaxPings
  /\ Step(Send(Cur, Cmd("PING", "", None, None, 0)))
  /\ UNCHANGED <<starts, stops, immediates, updatedCount>>

(***************************************************************************)
(* Spec: the device object and the receive path of the transport, driven   *)
(* by the polling loop, by set calls and by the ACK and channel lines of   *)
(* the device.                                                             *)
(***************************************************************************)
Next ==
  \/ StartSynchronization
  \/ StopSynchronization
  \/ SyncImmediate
  \/ SyncTimer
  \/ SetAttribute
  \/ TimerExpires
  \/ EmitUpdated
  \/ SocketData({AckLine, ChnLine})

Spec == Init /\ [][Next]_vars

(***************************************************************************)
(* SpecApi: the asynchronous methods of the device object called directly  *)
(* by the presentation layer: refreshState, getInfo, and waitForEvent on   *)
(* an emitter of the caller, with every order of the awaited event, the    *)
(* error event and the timer.                                              *)
(***************************************************************************)
NextApi ==
  \/ RefreshCall
  \/ GetInfo
  \/ WaitCall
  \/ ExtEvent
  \/ ExtError
  \/ TimerExpires

SpecApi == Init /\ [][NextApi]_vars

(***************************************************************************)
(* SpecRx: the receive path: every kind of line the device sends, arriving *)
(* while refreshState and getInfo calls of the presentation layer wait.    *)
(***************************************************************************)
NextRx ==
  \/ RefreshCall
  \/ GetInfo
  \/ TimerExpires
  \/ SocketData(RxLines)

SpecRx == Init /\ [][NextRx]_vars

(***************************************************************************)
(* SpecChange: checkForChange as a function of the two snapshots.  The     *)
(* snapshots are those that decoded channel updates produce: the two       *)
(* bounds, and optionally the on/off register and the setpoint, each with  *)
(* a value of its descriptor; a key of the previous snapshot is a key of   *)
(* the current one.                                                        *)
(***************************************************************************)
OnVal == [k |-> "ON", w |-> 0, t |-> 0]
OffVal == [k |-> "OFF", w |-> 0, t |-> 0]

\* the values a key may have in a snapshot (Undef: the key is absent)
SnapValues(key) ==
  CASE key = "onoff" -> {Undef, OnVal, OffVal}
    [] key = "setptemp" -> {Undef, Num(20, 0), Num(21, 5)}
    [] key = "minSetpoint" -> {Undef, minSetpoint}
    [] key = "maxSetpoint" -> {Undef, maxSetpoint}

SnapKeys == {KeyOrder[i] : i \in 1..Len(KeyOrder)}

\* the object that holds the defined values of f
Snapshot(f) == [x \in {key \in SnapKeys : f[key] # Undef} |-> f[x]]

Snapshots ==
  {Snapshot(f) : f \in {g \in [SnapKeys -> UNION {SnapValues(key) : key \in SnapKeys}] :
                          \A key \in SnapKeys : g[key] \in SnapValues(key)}}

InitChange ==
  /\ \E cfg \in CfgPairs :
       /\ minSetpoint = MaxNum(Num(18, 0), cfg[1])
       /\ maxSetpoint = MinNum(Num(30, 0), cfg[2])
  /\ \E period \in CfgPeriods : syncPeriod = MaxMs(1000, period)
  /\ state \in {st \in Snapshots : {"minSetpoint", "maxSetpoint"} \subseteq DOMAIN st}
  /\ previousState \in {pr \in Snapshots : DOMAIN pr \subseteq DOMAIN state}
  /\ isInitialSynced = TRUE
  /\ identity = [x \in {} |-> Undefined]
  /\ alive = TRUE
  /\ uncaught = FALSE
  /\ starts = 0
  /\ stops = FALSE
  /\ immediates = 0
  /\ syncTimeout = "null"
  /\ orphanTimers = 0
  /\ submitted = <<>>
  /\ wire = <<>>
  /\ calls = <<>>
  /\ buffer = <<>>
  /\ changedLog = <<>>
  /\ updatedPending = 0
  /\ updatedCount = 0
  /\ infoResult = [returned |-> FALSE, value |-> [x \in {} |-> Undefined]]
  /\ InitTransport
  /\ codec = NoCodec

\* checkForChange() run on the two snapshots (206, 242)
CheckChange ==
  /\ alive
  /\ Step(CheckForChange(Cur))
  /\ UNCHANGED <<starts, stops, immediates, updatedCount>>

NextChange ==
  \/ CheckChange
  \/ EmitUpdated

SpecChange == InitChange /\ [][NextChange]_vars

(***************************************************************************)
(* SpecConn: the life of the transport's connection: further device        *)
(* objects asking for the instance, and the connect, error and close       *)
(* events of its sockets, the reconnect timer and the keepalive.           *)
(* SpecConnLive adds that a pending reconnect timer expires.               *)
(***************************************************************************)
NextConn ==
  \/ DeviceConstructed
  \/ SocketConnect
  \/ SocketError
  \/ SocketClose
  \/ ReconnectTimer
  \/ KeepAlive

SpecConn == Init /\ [][NextConn]_vars

SpecConnLive == Init /\ [][NextConn]_vars /\ WF_vars(ReconnectTimer)

(***************************************************************************)
(* SpecCodec: the two transforms of the descriptors that define both, as   *)
(* functions: a value the device sends is decoded and encoded again, and a *)
(* normalized value the setters accept is encoded and decoded again.       *)
(***************************************************************************)
CodecRegs == {"mode", "vaneud", "setptemp", "minSetpoint", "maxSetpoint"}

\* values as the device sends them: the mode labels that onCHN compares
\* with (359-372), vane positions, temperatures in tenths of a degree
RawInputs(reg) ==
  CASE reg = "mode" -> {Label("AUTO"), Label("HEAT"), Label("DRY"), Label("FAN"),
                        Label("COOL")}
    [] reg = "vaneud" -> {Label("AUTO"), Label("SWING"), Num(4, 0)}
    [] reg = "setptemp" -> {Num(180, 0), Num(185, 0), Num(215, 0), Num(250, 0),
                            Num(300, 0), Num(32768, 0)}
    [] OTHER -> {Num(180, 0), Num(250, 0), Num(300, 0)}

\* normalized values that the set API passes to setState
ValInputs(reg) ==
  CASE reg = "mode" -> {Num(0, 0), Num(1, 0), Num(2, 0), Num(3, 0), Num(4, 0)}
    [] reg = "vaneud" -> {Num(10, 0), Num(4, 0)}
    [] reg = "setptemp" -> {Num(18, 0), Num(18, 5), Num(21, 5), Num(25, 0), Num(30, 0)}
    [] OTHER -> {Num(18, 0), Num(25, 0), Num(30, 0)}

CodecInputs ==
  {[reg |-> reg, dir |-> "raw", in |-> v, mid |-> Undef, out |-> Undef, stage |-> "in"] :
     <<reg, v>> \in UNION {{reg} \X RawInputs(reg) : reg \in CodecRegs}}
  \cup
  {[reg |-> reg, dir |-> "val", in |-> v, mid |-> Undef, out |-> Undef, stage |-> "in"] :
     <<reg, v>> \in UNION {{reg} \X ValInputs(reg) : reg \in CodecRegs}}

InitCodec ==
  /\ \E cfg \in CfgPairs :
       /\ minSetpoint = MaxNum(Num(18, 0), cfg[1])
       /\ maxSetpoint = MinNum(Num(30, 0), cfg[2])
  /\ \E period \in CfgPeriods : syncPeriod = MaxMs(1000, period)
  /\ state = Put(Put(EmptyObj, "minSetpoint", minSetpoint), "maxSetpoint", maxSetpoint)
  /\ previousState = EmptyObj
  /\ isInitialSynced = FALSE
  /\ identity = [x \in {} |-> Undefined]
  /\ alive = TRUE
  /\ uncaught = FALSE
  /\ starts = 0
  /\ stops = FALSE
  /\ immediates = 0
  /\ syncTimeout = "null"
  /\ orphanTimers = 0
  /\ submitted = <<>>
  /\ wire = <<>>
  /\ calls = <<>>
  /\ buffer = <<>>
  /\ changedLog = <<>>
  /\ updatedPending = 0
  /\ updatedCount = 0
  /\ infoResult = [returned |-> FALSE, value |-> [x \in {} |-> Undefined]]
  /\ InitTransport
  /\ codec \in CodecInputs

\* the next transform of the value under way is applied
CodecStep(decodeNow) ==
  /\ codec.stage \in {"in", "mid"}
  /\ decodeNow = ((codec.dir = "raw") = (codec.stage = "in"))
  /\ LET v == IF codec.stage = "in" THEN codec.in ELSE codec.mid
         r == IF decodeNow THEN XformFrom(codec.reg, v) ELSE XformTo(codec.reg, v)
     IN codec' = IF codec.stage = "in"
                 THEN [codec EXCEPT !.mid = r, !.stage = "mid"]
                 ELSE [codec EXCEPT !.out = r, !.stage = "done"]
  /\ UNCHANGED <<alive, uncaught, minSetpoint, maxSetpoint, state, previousState,
                 isInitialSynced, identity, starts, stops, immediates, syncTimeout,
                 orphanTimers, submitted, wire, calls, buffer, changedLog,
                 updatedPending, updatedCount, infoResult, instance, devices,
                 sockets, reconnectTimers, timerId, keepalives, unknownLogged,
                 syncPeriod, received, dispatched>>

\* sensorMap[uid].xform(value), as parseState applies it (240)
Decode == CodecStep(TRUE)

\* sensorMap[attr].xform(value), as setState applies it (275)
Encode == CodecStep(FALSE)

NextCodec ==
  \/ Decode
  \/ Encode

SpecCodec == InitCodec /\ [][NextCodec]_vars

(***************************************************************************)
(* The get API (73-85) on a current snapshot.                              *)
(***************************************************************************)
\* get.setpoint(): this.state.setpoint
GetSetpoint(st) == Get(st, "setpoint")

\* get.valid(): typeof this.state.active !== "undefined"
GetValid(st) == Get(st, "active").k # "undefined"

(***************************************************************************)
(* Properties.                                                             *)
(***************************************************************************)
IsWrite(c) == c.kind = "write"
IsPoll(c) == c.event = "onCHNUpd"
Pending(c) == c.outcome = "pending"

\* the write commands on the wire, in the order in which they were written
WritesOnWire == SelectSeq(wire, LAMBDA c : c.by > 0)
GetsOnWire == SelectSeq(wire, LAMBDA c : c.op = "GET")

\* C1: at any moment at most one write command is in flight (sent, and
\* neither acknowledged nor timed out).
C1_OneWriteInFlight ==
  Cardinality({i \in DOMAIN calls : IsWrite(calls[i]) /\ Pending(calls[i])}) <= 1

\* C2: the write commands reach the transport in the order of the set
\* calls: the k-th write on the wire is the one built by the k-th set call,
\* and every set call has put exactly one command on the wire.
C2_WriteOrder ==
  /\ Len(WritesOnWire) = Len(submitted)
  /\ \A k \in 1..Len(WritesOnWire) : WritesOnWire[k].by = k

\* three set calls were made while one write was acknowledged and another
\* one timed out
C2_Witness ==
  /\ Len(submitted) >= 3
  /\ \E i \in DOMAIN calls : IsWrite(calls[i]) /\ calls[i].outcome = "resolved"
  /\ \E i \in DOMAIN calls : IsWrite(calls[i]) /\ calls[i].outcome = "timeout"

\* C3: every submitted write is sent and eventually completes: as long as
\* it has not completed, the process runs and the write's timer is pending,
\* so that the ACK or the timeout can still complete it.
C3_WriteCompletes ==
  /\ Len(WritesOnWire) = Len(submitted)
  /\ \A i \in DOMAIN calls :
       IsWrite(calls[i]) /\ Pending(calls[i]) => alive /\ calls[i].timer

\* C4: the step in which a write is acknowledged leaves both snapshots
\* unchanged and emits no changed/updated notification, and the value of a
\* written attribute in the snapshot changes only in a step that receives
\* a channel line.
C4_AckLeavesState ==
  [][ /\ (\E i \in DOMAIN calls :
            /\ IsWrite(calls[i]) /\ Pending(calls[i])
            /\ calls'[i].outcome = "resolved")
         => UNCHANGED <<state, previousState, changedLog, updatedPending, updatedCount>>
      /\ (\E k \in DOMAIN submitted :
            Get(state', submitted[k][1]) # Get(state, submitted[k][1]))
         => SocketData({ChnLine}) ]_vars

\* a write of the setpoint has been acknowledged
C4_Witness ==
  \E i \in DOMAIN calls :
    /\ IsWrite(calls[i]) /\ calls[i].outcome = "resolved"
    /\ submitted[calls[i].by][1] = "setptemp"

\* C5: every waitForEvent call produces exactly one outcome: an outcome,
\* once produced, never changes (never a value and a failure); the event,
\* the error and the timer each produce an outcome for a call that has
\* none, and a call without outcome still has its timer and both listeners
\* (never none).
C5_ExactlyOneOutcome ==
  /\ [](\A i \in DOMAIN calls :
          Pending(calls[i]) => calls[i].timer /\ calls[i].success /\ calls[i].fail)
  /\ [][\A i \in DOMAIN calls :
          /\ ~Pending(calls[i]) => calls'[i].outcome = calls[i].outcome
          /\ \/ calls[i].timer /\ ~calls'[i].timer
             \/ calls[i].success /\ ~calls'[i].success
             \/ calls[i].fail /\ ~calls'[i].fail
             => ~Pending(calls'[i])]_vars

\* a call was rejected by its timeout and the awaited event fired later
C5_Witness ==
  /\ \E i \in DOMAIN calls : calls[i].outcome = "timeout" /\ ~calls[i].success
  /\ \E i \in DOMAIN calls : calls[i].outcome = "resolved"
  /\ \E i \in DOMAIN calls : calls[i].outcome = "error"

\* C6: when a waitForEvent call has completed, neither of its listeners is
\* registered any more and its timer is not pending.
C6_NothingLeftBehind ==
  \A i \in DOMAIN calls :
    ~Pending(calls[i]) => ~calls[i].timer /\ ~calls[i].success /\ ~calls[i].fail

C8_PollFailureResets ==
  [][\A i \in DOMAIN calls :
       calls[i].kind = "sync" /\ Pending(calls[i])
         /\ calls'[i].outcome \in {"timeout", "error"}
       => state' = EmptyObj /\ previousState' = EmptyObj /\ ~isInitialSynced']_vars

\* C9: a refreshState call whose dump did not arrive within the timeout
\* fails towards its caller, and getInfo does not complete normally while
\* no identify response has arrived.
C9_TimeoutPropagates ==
  /\ \A i \in DOMAIN calls :
       IsPoll(calls[i]) /\ calls[i].outcome = "timeout" => calls[i].ret = "rejected"
  /\ infoResult.returned => "model" \in DOMAIN infoResult.value

\* C10: once synchronization is started and not stopped, polling goes on:
\* the process runs, and a cycle is about to start (setImmediate or timer
\* pending) or is awaiting its poll.
C10_PollingGoesOn ==
  starts > 0 /\ ~stops =>
    /\ alive
    /\ \/ immediates > 0
       \/ PendingSyncTimers # {}
       \/ \E i \in DOMAIN calls :
            calls[i].kind = "sync" /\ Pending(calls[i]) /\ calls[i].timer

\* C11: stopSynchronization cancels the pending timer of the next cycle
\* (the one syncTimeout names), leaves every waitForEvent call as it is
\* (the poll of a cycle in flight and the submitted writes keep their
\* timers and listeners), removes nothing from the wire or from the
\* submitted writes; and a cycle whose poll completes, stopped or not,
\* runs to its end: refreshState returns and syncState arms its timer.
C11_StopCancelsOnlyTimer ==
  /\ [][StopSynchronization =>
          /\ syncTimeout' # "armed"
          /\ UNCHANGED <<calls, wire, submitted, orphanTimers, immediates,
                         state, previousState>>]_vars
  /\ [][\A i \in DOMAIN calls :
          calls[i].kind = "sync" /\ Pending(calls[i]) /\ ~Pending(calls'[i])
            => calls'[i].ret # "none" /\ syncTimeout' = "armed"]_vars

\* stop was called while the second cycle was awaiting its poll (the timer
\* that started the cycle had left syncTimeout stale): the poll is still
\* awaited, with its timer, and nothing was taken off the wire
C11_Witness ==
  /\ stops /\ syncTimeout = "null"
  /\ Cardinality({i \in DOMAIN calls : calls[i].kind = "sync"}) = 2
  /\ \E i \in DOMAIN calls :
       calls[i].kind = "sync" /\ Pending(calls[i]) /\ calls[i].timer
  /\ Len(wire) = Len(calls)

\* C12: a cycle that starts while isInitialSynced is false (the first
\* cycle, and the first one after a Reset) clears both snapshots, seeds
\* minSetpoint and maxSetpoint of the current snapshot from the configured
\* bounds, and writes a LIMITS command carrying the configured pair before
\* it writes its GET; so no GET is on the wire without such a LIMITS
\* command before it.
C12_FirstCycleSeeds ==
  /\ [][~isInitialSynced /\ isInitialSynced' =>
          LET new == SubSeq(wire', Len(wire) + 1, Len(wire'))
          IN /\ previousState' = EmptyObj
             /\ state' = Put(Put(EmptyObj, "minSetpoint", minSetpoint),
                             "maxSetpoint", maxSetpoint)
             /\ \E g \in 1..Len(new) :
                  /\ new[g].op = "GET"
                  /\ \E k \in 1..(g - 1) :
                       /\ new[k].op = "LIMITS"
                       /\ new[k].a = Times10(minSetpoint)
                       /\ new[k].b = Times10(maxSetpoint)]_vars
  /\ [](\A g \in DOMAIN wire :
          wire[g].op = "GET" =>
            \E k \in 1..(g - 1) :
              /\ wire[k].op = "LIMITS"
              /\ wire[k].a = Times10(minSetpoint)
              /\ wire[k].b = Times10(maxSetpoint))

\* the first cycle has run after a set call of the presentation layer
C12_Witness ==
  /\ isInitialSynced
  /\ Len(GetsOnWire) >= 1
  /\ Len(wire) >= 4 /\ wire[1].by = 1 /\ wire[4].op = "GET"

\* C13: the data event that delivers CHN,1:SETPTEMP,215 sets the current
\* setpoint to 21.5 (get.setpoint() returns 21.5) and emits the change
\* notification ("setpoint", previous value, 21.5).
C13_SetpointDecoded ==
  [][SocketData({ChnSetpLine}) =>
       /\ GetSetpoint(state') = Num(21, 5)
       /\ changedLog' =
            Append(changedLog, <<"setpoint", Get(previousState, "setpoint"), Num(21, 5)>>)]_vars

\* C14: the data event that delivers a channel update with an identifier
\* that the descriptor table does not hold lets no exception escape and
\* leaves the state unchanged, and the line is consumed, so that the lines
\* after it are still decoded.
C14_UnknownIdHarmless ==
  [][SocketData({ChnUnknownLine}) =>
       /\ uncaught' = uncaught /\ alive'
       /\ state' = state
       /\ IndexOf(buffer', "LF") = 0]_vars

\* the attributes whose current value differs from the previous one
Changed(st, prev) == {a \in DOMAIN st : Differs(st[a], Get(prev, a))}

\* C15: a change detection that finds exactly one attribute A changed
\* emits exactly one change notification, for A with its old and its new
\* value, and schedules exactly one generic update; afterwards the previous
\* value of A is its current value and no attribute differs, and a change
\* detection that finds no difference emits nothing.
C15_OneChangeOneNotification ==
  [][CheckChange =>
       LET D == Changed(state, previousState)
       IN /\ Cardinality(D) = 1 =>
               \E A \in D :
                 /\ changedLog' = Append(changedLog, <<A, Get(previousState, A), state[A]>>)
                 /\ updatedPending' = updatedPending + 1
                 /\ Get(previousState', A) = Get(state', A)
                 /\ Changed(state', previousState') = {}
          /\ D = {} => changedLog' = changedLog /\ updatedPending' = updatedPending]_vars

\* one attribute (the setpoint, from 20.0 to 21.5) had changed: its change
\* notification and then the generic update were emitted
C15_Witness ==
  /\ changedLog = << <<"setptemp", Num(20, 0), Num(21, 5)>> >>
  /\ updatedCount = 1 /\ updatedPending = 0
  /\ Get(previousState, "setptemp") = Num(21, 5)

\* C16: the change notifications of a cycle are all emitted, in one step,
\* before the generic update of that cycle is delivered: the step that
\* emits change notifications delivers no update and schedules exactly one,
\* the step that delivers an update emits no change notification, and an
\* update is pending or delivered only after change notifications.
C16_ChangesBeforeUpdate ==
  /\ [][/\ changedLog' # changedLog =>
             updatedCount' = updatedCount /\ updatedPending' = updatedPending + 1
        /\ updatedCount' # updatedCount =>
             /\ changedLog' = changedLog
             /\ updatedCount' = updatedCount + 1
             /\ updatedPending' = updatedPending - 1]_vars
  /\ [](updatedPending + updatedCount > 0 => changedLog # <<>>)

\* the two change notifications of the first cycle were emitted and its
\* update was delivered, in a behaviour in which a write was acknowledged
C16_Witness ==
  /\ Len(changedLog) = 2
  /\ updatedCount = 1
  /\ \E i \in DOMAIN calls : IsWrite(calls[i]) /\ calls[i].outcome = "resolved"

\* C17: every set.minSetpoint or set.maxSetpoint call puts exactly one
\* command on the wire, a LIMITS:SETPTEMP command whose own bound is the
\* encoded value passed and whose other bound is the encoded value that the
\* current snapshot holds for the other bound.
C17_OneLimitsPerCall ==
  [][\A k \in (Len(submitted) + 1)..Len(submitted') :
       submitted'[k][1] \in {"minSetpoint", "maxSetpoint"} =>
         LET cs == {j \in DOMAIN wire' : wire'[j].by = k}
             v == submitted'[k][2]
         IN /\ Cardinality(cs) = 1
            /\ \A j \in cs :
                 /\ j > Len(wire)
                 /\ wire'[j].op = "LIMITS" /\ wire'[j].attr = "SETPTEMP"
                 /\ IF submitted'[k][1] = "minSetpoint"
                    THEN /\ wire'[j].a = Times10(v)
                         /\ wire'[j].b = Times10(Get(state', "maxSetpoint"))
                    ELSE /\ wire'[j].a = Times10(Get(state', "minSetpoint"))
                         /\ wire'[j].b = Times10(v)]_vars

\* set.minSetpoint(19) of the presentation layer has sent LIMITS [190,250]
C17_Witness ==
  \E j \in DOMAIN wire :
    /\ wire[j].op = "LIMITS" /\ wire[j].a = Num(190, 0) /\ wire[j].b = Num(250, 0)
    /\ submitted[wire[j].by] = <<"minSetpoint", Num(19, 0)>>

C19_SetCarriesRawValue ==
  \A j \in DOMAIN wire :
    wire[j].op = "SET" =>
      wire[j].a = XformTo(wire[j].attr, submitted[wire[j].by][2])

\* C20: get.valid() is true once the device has reported its on/off
\* register in answer to a poll, and false before any poll was made.
C20_ValidAfterPoll ==
  /\ (alive /\ \E i \in DOMAIN calls : IsPoll(calls[i]) /\ calls[i].chn >= 1)
       => GetValid(state)
  /\ Len(GetsOnWire) = 0 => ~GetValid(state)

\* C21: getInfo never completes with an empty identity: when it has
\* returned, the identity it returned was parsed from an identify response.
C21_InfoWaitsForIdentity ==
  infoResult.returned => DOMAIN infoResult.value # {}

\* the sockets that are connecting or connected
LiveSockets == {i \in DOMAIN sockets : sockets[i] \in {"connecting", "connected"}}
IdsOnWire == SelectSeq(wire, LAMBDA c : c.op = "ID")
PingsOnWire == SelectSeq(wire, LAMBDA c : c.op = "PING")

\* a socket is closed in this step
ClosesSocket == \E i \in DOMAIN sockets : sockets[i] # "closed" /\ sockets'[i] = "closed"

\* C22: the construction of a further device object for the host of the
\* existing transport returns that transport: no instance, socket,
\* keepalive or reconnect timer is made.
C22_OneTransportPerHost ==
  [][(Len(devices') > Len(devices) /\ devices'[Len(devices')] = instance) =>
       /\ instance' = instance
       /\ sockets' = sockets
       /\ keepalives' = keepalives
       /\ reconnectTimers' = reconnectTimers]_vars

\* three device objects for one host share the one connected socket
C22_Witness ==
  /\ devices = <<FirstHost, FirstHost, FirstHost>>
  /\ sockets = <<"connected">>
  /\ keepalives = 1

\* C23: at most one socket is connecting or connected, and a new socket is
\* made only when every earlier one has closed.
C23_OneLiveSocket ==
  /\ [](Cardinality(LiveSockets) <= 1)
  /\ [][Len(sockets') > Len(sockets) =>
          \A i \in DOMAIN sockets : sockets[i] = "closed"]_vars

\* the third socket is connected after two earlier ones have closed
C23_Witness ==
  /\ Len(sockets) = 3
  /\ sockets[3] = "connected"

\* C24: a close arms exactly one reconnect timer, and at most one is
\* pending at any time, and none while a socket is connecting or connected.
C24_OneReconnectTimer ==
  /\ [](reconnectTimers + Cardinality(LiveSockets) <= 1)
  /\ [][ClosesSocket => reconnectTimers' = reconnectTimers + 1]_vars

\* a reconnect attempt has failed before any connection succeeded: two
\* sockets have closed, no ID was ever sent, and one timer is pending
C24_Witness ==
  /\ sockets = <<"closed", "closed">>
  /\ Len(IdsOnWire) = 0
  /\ reconnectTimers = 1

\* C25: the transport is never disconnected with no reconnect pending, and
\* after a close a new socket is eventually made (as long as the bound on
\* the sockets of a behaviour allows one).
C25_ReconnectsForever ==
  /\ [](reconnectTimers + Cardinality(LiveSockets) >= 1)
  /\ \A n \in 1..(MaxSockets - 1) :
       (Len(sockets) = n /\ sockets[n] = "closed") ~> (Len(sockets) > n)

\* after two failed attempts a third one is under way
C25_Witness ==
  /\ sockets = <<"closed", "closed", "connecting">>
  /\ Len(IdsOnWire) = 0

\* C26: a connect sends ID and starts the keepalive, a close cancels it:
\* a keepalive runs exactly while a socket is connected (so at most one),
\* and a PING is written only while a socket is connected.
C26_KeepaliveWhileConnected ==
  /\ [](keepalives = Cardinality({i \in DOMAIN sockets : sockets[i] = "connected"}))
  /\ [](keepalives <= 1)
  /\ [][(\E i \in DOMAIN sockets :
           sockets[i] = "connecting" /\ sockets'[i] = "connected")
        => (/\ Len(wire') = Len(wire) + 1
            /\ wire'[Len(wire')].op = "ID"
            /\ keepalives' = keepalives + 1)]_vars
  /\ [][ClosesSocket => keepalives' = 0]_vars
  /\ [][Len(PingsOnWire') > Len(PingsOnWire)
        => \E i \in DOMAIN sockets : sockets[i] = "connected"]_vars

\* a PING was written, the socket closed, and the next one is connected
\* with its own keepalive
C26_Witness ==
  /\ Len(PingsOnWire) >= 1
  /\ Len(sockets) = 2 /\ sockets[2] = "connected"
  /\ Len(IdsOnWire) = 2
  /\ keepalives = 1

\* C27: no inbound line ends or wedges the engine: no exception has left
\* the data handler, the process runs, and every complete line that was
\* received has been taken off the receive buffer.
C27_NoLineIsFatal ==
  /\ ~uncaught
  /\ alive
  /\ IndexOf(buffer, "LF") = 0

\* C28: a line whose code is ID, INFO, ACK, CHN,1 or PONG (every line the
\* device sends here has one of them) is dispatched as its typed event and
\* is never reported as an unknown message.
C28_KnownCodesDispatched ==
  ~unknownLogged

\* C29: an identity that was built from an identify response has the
\* fields of the response's payload, the MAC field whole also when it is
\* written with a colon, and the MAC address as its serial number.
C29_IdentityFields ==
  DOMAIN identity # {} =>
    /\ identity["model"] = <<"WMP">>
    /\ identity["wlanSTAMAC"] \in {<<"MAC">>, <<"AA", ":", "BB">>}
    /\ identity["ip"] = <<"IP">>
    /\ identity["protocol"] = <<"ASCII">>
    /\ identity["fwVersion"] = <<"v1">>
    /\ identity["rssi"] = <<"-51">>
    /\ identity["name"] = <<"NAME">>
    /\ identity["sn"] = identity["wlanSTAMAC"]

\* C30: a value that went through both transforms of its descriptor is
\* the value that went in: encode(decode(raw)) = raw for a value the
\* device sends, and decode(encode(v)) = v for a normalized value.
C30_RoundTrip ==
  codec.stage = "done" => codec.out = codec.in

(***************************************************************************)
(* SpecFrame: the byte stream of one connection, cut into data events at   *)
(* every position.  The device sends ACK, PONG and channel lines; the PONG *)
(* line is written byte by byte, so that a data event can end inside the   *)
(* word.                                                                   *)
(***************************************************************************)
MaxStream == 13     \* bytes (tokens) the sockets hand to onSocketData

PongBytes == <<"P", "O", "N", "G", "CR", "LF">>

FrameLines == {AckLine, PongBytes, ChnLine}

\* the bytes of s after its last newline
RECURSIVE AfterLastLF(_)
AfterLastLF(s) ==
  LET n == IndexOf(s, "LF")
  IN IF n = 0 THEN s ELSE AfterLastLF(SubSeq(s, n + 1, Len(s)))

\* the number of bytes that the first n sockets have received
RECURSIVE ReceivedBytes(_)
ReceivedBytes(n) == IF n = 0 THEN 0 ELSE Len(received[n]) + ReceivedBytes(n - 1)

\* a 'data' event of a connected socket: the next bytes of the stream of
\* lines that the device sends, ending anywhere in this line or the next
SocketChunk(lines) ==
  /\ alive
  /\ \E i \in DOMAIN sockets : \E l1 \in lines, l2 \in lines :
       LET p == Len(AfterLastLF(received[i]))
           both == l1 \o l2
       IN /\ sockets[i] = "connected"
          /\ p < Len(l1)
          /\ AfterLastLF(received[i]) = SubSeq(l1, 1, p)
          /\ \E j \in (p + 1)..Len(both) :
               LET data == SubSeq(both, p + 1, j)
                   e == OnSocketData(Cur, data)
               IN /\ ReceivedBytes(Len(sockets)) + Len(data) <= MaxStream
                  /\ Commit(Continue(e, calls, 1))
                  /\ uncaught' = (uncaught \/ e.thrown)
                  /\ IF e.thrown THEN alive' \in BOOLEAN ELSE alive' = alive
                  /\ received' = [received EXCEPT ![i] = @ \o data]
                  /\ dispatched' =
                       dispatched \o [k \in 1..Len(e.lines) |->
                                        [sock |-> i, line |-> e.lines[k]]]
  /\ UNCHANGED <<minSetpoint, maxSetpoint, starts, stops, immediates, updatedCount,
                 codec, syncPeriod>>

NextFrame ==
  \/ SocketConnect
  \/ SocketChunk(FrameLines)

SpecFrame == Init /\ [][NextFrame]_vars

\* the complete lines of a byte stream, each without its newline and
\* without one carriage return before it
RECURSIVE LinesOf(_)
LinesOf(s) ==
  LET n == IndexOf(s, "LF")
      raw == SubSeq(s, 1, n - 1)
  IN IF n = 0 THEN <<>>
     ELSE <<IF Len(raw) > 0 /\ raw[Len(raw)] = "CR"
            THEN SubSeq(raw, 1, Len(raw) - 1) ELSE raw>>
          \o LinesOf(SubSeq(s, n + 1, Len(s)))

\* the lines that the data events of socket i have emitted, in order
LinesFrom(i) ==
  LET own == SelectSeq(dispatched, LAMBDA d : d.sock = i)
  IN [k \in 1..Len(own) |-> own[k].line]

\* C31: line framing does not depend on how the stream is cut into data
\* events: the lines dispatched are the complete lines of the bytes
\* received so far, each once and in order, without the carriage return;
\* and after a data event the buffer holds the bytes after the last newline
\* and no newline.
C31_FramingIgnoresChunks ==
  \A i \in DOMAIN sockets :
    Len(received[i]) > 0 =>
      /\ LinesFrom(i) = LinesOf(received[i])
      /\ buffer = AfterLastLF(received[i])
      /\ IndexOf(buffer, "LF") = 0

(***************************************************************************)
(* parseState (230-243) on an array of sensor items, and SpecSnap: the     *)
(* operations on the two snapshots - parseState, checkForChange,           *)
(* resetState - applied to drawn snapshots, with a first cycle of the     *)
(* polling loop, whose writes are acknowledged or time out.                *)
(***************************************************************************)
MaxChanges == 2     \* EVENT_CHANGED notifications in one behaviour

\* the attr of sensorMap[uid]: "" for an entry without attr (181-184),
\* "#none" when sensorMap has no entry for the uid
SensorAttr(uid) ==
  CASE uid = 1 -> "onoff"
    [] uid = 9 -> "setptemp"
    [] uid = 35 -> "minSetpoint"
    [] uid = 36 -> "maxSetpoint"
    [] uid = 181 -> ""
    [] OTHER -> "#none"

\* a parseState whose forEach deletes the attribute of an unhandled item
RECURSIVE ParseItemsDrops(_, _, _)
ParseItemsDrops(e, sensors, i) ==
  IF i > Len(sensors) THEN e
  ELSE LET attr == SensorAttr(sensors[i].uid)
       IN IF attr \in {"#none", ""}
          THEN ParseItemsDrops(
                 [e EXCEPT !.state = [x \in DOMAIN @ \ {"onoff"} |-> @[x]]],
                 sensors, i + 1)
          ELSE ParseItemsDrops(
                 [e EXCEPT !.state = Put(@, attr, XformFrom(attr, sensors[i].value))],
                 sensors, i + 1)

\* the forEach of parseState (231-241)
RECURSIVE ParseItems(_, _, _)
ParseItems(e, sensors, i) ==
  IF i > Len(sensors) THEN e
  ELSE LET attr == SensorAttr(sensors[i].uid)
       IN IF attr \in {"#none", ""}
          THEN ParseItems(e, sensors, i + 1)
          ELSE ParseItems(
                 [e EXCEPT !.state = Put(@, attr, XformFrom(attr, sensors[i].value))],
                 sensors, i + 1)

ParseState(e, sensors) == CheckForChange(ParseItems(e, sensors, 1))

\* arrays of sensor items: the on/off register, the setpoint, an ignored
\* code and a code that the map does not hold
SensorInputs ==
  { <<[uid |-> 1, value |-> OnVal]>>,
    <<[uid |-> 9, value |-> Num(215, 0)], [uid |-> 1, value |-> OffVal]>>,
    <<[uid |-> 181, value |-> Num(1, 0)]>>,
    <<[uid |-> 99, value |-> Num(1, 0)]>> }

\* parseState(sensors) run on the two snapshots
ParseSensors ==
  /\ alive
  /\ Len(changedLog) < MaxChanges
  /\ \E sensors \in SensorInputs : Step(ParseState(Cur, sensors))
  /\ UNCHANGED <<starts, stops, immediates, updatedCount>>

\* resetState() run on the two snapshots (209)
ResetSnap ==
  /\ alive
  /\ Step(ResetState(Cur))
  /\ UNCHANGED <<starts, stops, immediates, updatedCount>>

NextSnap ==
  \/ ParseSensors
  \/ CheckChange
  \/ ResetSnap
  \/ EmitUpdated
  \/ StartSynchronization
  \/ SyncImmediate
  \/ TimerExpires
  \/ SocketData({AckLine})

\* the drawn snapshots in which the device has not reported a setpoint yet
InitSnap == InitChange /\ "setptemp" \notin DOMAIN state

SpecSnap == InitSnap /\ [][NextSnap]_vars

\* a step that resets the snapshots: resetState, or the start of a cycle
\* that finds isInitialSynced false (176-183)
IsReset == ResetSnap \/ (~isInitialSynced /\ isInitialSynced')

\* C32: between two resets the keys of the current snapshot only grow: no
\* channel update, change detection, write, acknowledgment or timeout
\* removes one; a reset clears the previous snapshot together with the
\* current one (which keeps at most the two seeded bounds); and every key
\* of the previous snapshot is a key of the current one.
C32_KeysOnlyGrow ==
  /\ [](DOMAIN previousState \subseteq DOMAIN state)
  /\ [][~IsReset => DOMAIN state \subseteq DOMAIN state']_vars
  /\ [][IsReset =>
          /\ previousState' = EmptyObj
          /\ DOMAIN state' \subseteq {"minSetpoint", "maxSetpoint"}]_vars

\* after a reset and the seeding cycle a channel update has added the
\* on/off register to both snapshots, the writes of the cycle were
\* acknowledged and its poll has timed out
C32_Witness ==
  /\ isInitialSynced
  /\ DOMAIN state = {"minSetpoint", "maxSetpoint", "onoff"}
  /\ DOMAIN previousState = DOMAIN state
  /\ \E i \in DOMAIN calls : IsWrite(calls[i]) /\ calls[i].outcome = "resolved"
  /\ \E i \in DOMAIN calls : IsPoll(calls[i]) /\ calls[i].outcome = "timeout"

\* C33: one ACK line completes at most one pending write: no step (a data
\* event here carries one line) acknowledges two writes that were awaiting
\* their acknowledgment.
C33_OneAckOneWrite ==
  [][Cardinality({i \in DOMAIN calls :
                    /\ IsWrite(calls[i]) /\ Pending(calls[i])
                    /\ calls'[i].outcome = "resolved"}) <= 1]_vars

(***************************************************************************)
(* SpecLoop: the polling loop started, more than once, and then stopped:   *)
(* no start follows the stop, so that whatever polls after the stop was    *)
(* started before it.  The writes of the first cycle are acknowledged or   *)
(* time out, the polls time out.                                           *)
(***************************************************************************)
MaxLoopStarts == 2  \* startSynchronization() calls before the stop

\* startSynchronization (125-127), called before stopSynchronization
StartBeforeStop ==
  /\ alive
  /\ ~stops
  /\ starts < MaxLoopStarts
  /\ starts' = starts + 1
  /\ immediates' = immediates + 1
  /\ UNCHANGED <<alive, uncaught, minSetpoint, maxSetpoint, state, previousState,
                 isInitialSynced, identity, stops, syncTimeout, orphanTimers,
                 submitted, wire, calls, buffer, changedLog, updatedPending,
                 updatedCount, infoResult, instance, devices, sockets,
                 reconnectTimers, timerId, keepalives, unknownLogged, codec,
                 syncPeriod, received, dispatched>>

NextLoop ==
  \/ StartBeforeStop
  \/ StopSynchronization
  \/ SyncImmediate
  \/ SyncTimer
  \/ TimerExpires
  \/ EmitUpdated
  \/ SocketData({AckLine})

SpecLoop == Init /\ [][NextLoop]_vars

\* C34: after stopSynchronization() has returned, polling stops: no GET is
\* written any more (the cycle in flight has written its GET already) and
\* no sync timer is armed - also when the stop came while a cycle was
\* awaiting its poll, or before the first cycle had begun.
C34_StopEndsPolling ==
  [][stops =>
       /\ Len(GetsOnWire') = Len(GetsOnWire)
       /\ syncTimeout' = "armed" => syncTimeout = "armed"
       /\ orphanTimers' <= orphanTimers]_vars

\* the polling loops of the device object: the cycles about to start
\* (setImmediate or timer pending) and the cycles awaiting their poll
Loops ==
  immediates + orphanTimers + (IF syncTimeout = "armed" THEN 1 ELSE 0)
    + Cardinality({i \in DOMAIN calls : calls[i].kind = "sync" /\ Pending(calls[i])})

\* C35: a device object has at most one polling loop, however often
\* startSynchronization() is called, so that at most one sync timer is
\* pending, and one stopSynchronization() call leaves no sync timer
\* pending.
C35_OneLoop ==
  /\ [](Loops <= 1)
  /\ [][StopSynchronization => PendingSyncTimers' = {}]_vars

(***************************************************************************)
(* SpecLimits: the presentation layer sets the two setpoint bounds, and    *)
(* the device acknowledges the writes or lets them time out.               *)
(***************************************************************************)
\* set.minSetpoint(19) and set.maxSetpoint(24)
LimitInputs == { <<"minSetpoint", Num(19, 0)>>, <<"maxSetpoint", Num(24, 0)>> }

\* set.minSetpoint(value) or set.maxSetpoint(value) called by the
\* presentation layer (101-106)
SetLimit ==
  /\ alive
  /\ Len(calls) < MaxCalls
  /\ \E in \in LimitInputs : Step(SetCall(Cur, in[1], in[2]))
  /\ UNCHANGED <<starts, stops, immediates, updatedCount>>

NextLimits ==
  \/ SetLimit
  \/ TimerExpires
  \/ SocketData({AckLine})

SpecLimits == Init /\ [][NextLimits]_vars

\* the k-th set call was acknowledged
Acked(k) ==
  \E i \in DOMAIN calls :
    IsWrite(calls[i]) /\ calls[i].by = k /\ calls[i].outcome = "resolved"

\* the value that the set call for attr among the two calls a, b has passed
Passed(attr, a, b) == IF a[1] = attr THEN a[2] ELSE b[2]

\* C36: when the two bounds were set one after the other (minSetpoint and
\* then maxSetpoint, or the other way round) and both writes were
\* acknowledged, the LIMITS command written last carries the two values
\* that were set, not the value a bound had before it was set.
C36_LimitsKeepEarlierWrite ==
  \A j \in 2..Len(submitted) :
    ( /\ j = Len(submitted)
      /\ submitted[j - 1][1] # submitted[j][1]
      /\ Acked(j - 1) /\ Acked(j) )
    => /\ WritesOnWire[j].a
            = XformTo("minSetpoint", Passed("minSetpoint", submitted[j - 1], submitted[j]))
       /\ WritesOnWire[j].b
            = XformTo("maxSetpoint", Passed("maxSetpoint", submitted[j - 1], submitted[j]))

(***************************************************************************)
(* SpecLink: connections that are lost and made again while the device     *)
(* sends ACK lines in data events of any size, and while the writes and    *)
(* the poll of a first cycle are waiting.                                  *)
(***************************************************************************)
LinkLines == {AckLine}

NextLink ==
  \/ StartSynchronization
  \/ SyncImmediate
  \/ SocketConnect
  \/ SocketChunk(LinkLines)
  \/ SocketError
  \/ SocketClose
  \/ ReconnectTimer

SpecLink == Init /\ [][NextLink]_vars

\* C37: the bytes of an unfinished line that a closed connection left in
\* the receive buffer are not joined with the bytes of the next
\* connection: the first line dispatched from the data of a socket made by
\* a reconnect is the first line of the bytes that this socket received.
C37_NoBytesAcrossConnections ==
  \A i \in DOMAIN sockets :
    i > 1 /\ Len(LinesFrom(i)) > 0 =>
      LinesFrom(i)[1] = LinesOf(received[i])[1]

\* C40: the error event of a socket changes nothing by itself: the step
\* in which a socket fails (error, then close) leaves the transport as
\* the close handler alone leaves it - one reconnect timer more, the
\* keepalive cleared, no further socket - and leaves the receive buffer
\* and every waitForEvent call as they were.
C40_ErrorOnlyLogs ==
  [][SocketError =>
       \E i \in DOMAIN sockets :
         /\ sockets[i] \in {"connecting", "connected"}
         /\ sockets' = OnSocketClose([Cur EXCEPT !.sockets[i] = "closed"]).sockets
         /\ reconnectTimers' = OnSocketClose(Cur).reconnectTimers
         /\ timerId' = OnSocketClose(Cur).timerId
         /\ keepalives' = OnSocketClose(Cur).keepalives
         /\ UNCHANGED <<buffer, calls, wire, state, previousState>>]_vars

\* a socket was lost while the keepalive ran, the buffer held an
\* unfinished line and a write was awaiting its acknowledgment
C40_Witness ==
  /\ \E i \in DOMAIN sockets : sockets[i] = "closed"
  /\ reconnectTimers = 1
  /\ timerId = "cleared"
  /\ buffer # <<>>
  /\ \E c \in DOMAIN calls : IsWrite(calls[c]) /\ Pending(calls[c])

\* C38: every device object has a transport that is connected to the
\* host the object was configured with: the transport that getInstance
\* returned for a host is the transport of that host.
C38_TransportOfOwnHost ==
  \A i \in DOMAIN devices : devices[i] = instance

(***************************************************************************)
(* SpecCfg: device objects constructed with setpoint bounds and sync       *)
(* periods inside and outside the supported ranges, each running its       *)
(* polling loop.                                                           *)
(***************************************************************************)
\* configured (minSetpoint, maxSetpoint): below the range and inside it,
\* inside it, crossed, above the range, below the range
CfgInputs ==
  { <<Num(16, 0), Num(25, 0)>>, <<Num(20, 0), Num(24, 0)>>,
    <<Num(25, 0), Num(20, 0)>>, <<Num(35, 0), Num(40, 0)>>,
    <<Num(10, 0), Num(12, 0)>> }

\* configured sync periods, in ms
PeriodInputs == {500, 1000, 5000}

InitCfg == InitWith(CfgInputs, PeriodInputs)

NextCfg ==
  \/ StartSynchronization
  \/ SyncImmediate
  \/ SyncTimer
  \/ TimerExpires
  \/ EmitUpdated
  \/ SocketData({AckLine})

SpecCfg == InitCfg /\ [][NextCfg]_vars

\* a <= b on JavaScript numbers
Leq(a, b) == a.k = "num" /\ b.k = "num" /\ a.w * 10 + a.t <= b.w * 10 + b.t

\* C39: after construction 18 <= minSetpoint <= maxSetpoint <= 30 whatever
\* pair was configured, and the sync period is at least 1000 ms; so every
\* LIMITS command that a first cycle writes has min <= max.
C39_BoundsOrdered ==
  /\ Leq(Num(18, 0), minSetpoint)
  /\ Leq(minSetpoint, maxSetpoint)
  /\ Leq(maxSetpoint, Num(30, 0))
  /\ syncPeriod >= 1000
  /\ \A k \in DOMAIN wire : wire[k].op = "LIMITS" => Leq(wire[k].a, wire[k].b)
====
